---- MODULE Spec2Model ----
(***************************************************************************)
(* Model of src/pano.py: make_pano plans a tile grid, fetches every tile   *)
(* concurrently (fetch_tile under asyncio.gather), pastes the fetched      *)
(* tiles into one canvas and saves it.                                     *)
(***************************************************************************)
EXTENDS Integers, Sequences, FiniteSets, Bags, TLC

\* ---------------------------------------------------------------- bounds
MaxPanoWidth == 4
MaxPanoHeight == 3
MaxTileSize == 2
MaxTiles == 4
MaxBelowOne == 2
MaxOverLimit == 1
MaxZoom == 2
MaxZoomLevels == 2

VARIABLES
    pc,           \* position of make_pano
    args,         \* the arguments make_pano was called with
    pano_height,  \* local pano_height (rebound at line 43)
    x_range,      \* line 38
    y_range,      \* line 39
    total_tiles,  \* line 40
    pano,         \* the canvas, line 45
    bar_value,    \* bar.value of the progress bar, line 48
    bar_calls,    \* number of bar.update calls made
    tasks,        \* the tile URLs in dispatch order, lines 51-55
    task,         \* state of each fetch_tile task
    results,      \* line 57
    tile_index,   \* line 59
    x, y,         \* loop variables of lines 60-61
    saved,        \* number of times pano.save wrote the file
    main,         \* main: its position, its inputs and the exit status
    log,          \* the "Failed to fetch tile" lines printed at line 34
    err           \* exception that ended make_pano, if any

vars == <<pc, args, pano_height, x_range, y_range, total_tiles, pano,
          bar_value, bar_calls, tasks, task, results, tile_index, x, y,
          saved, log, main, err>>

\* ------------------------------------------------------ python arithmetic
\* math.ceil(a / b) for b # 0
CeilDiv(a, b) == IF b > 0 THEN 0 - ((0 - a) \div b) ELSE 0 - (a \div (0 - b))

\* int(w / 2): truncation toward zero
HalfInt(w) == IF w >= 0 THEN w \div 2 ELSE 0 - ((0 - w) \div 2)

\* range(n)
Range(n) == 0 .. (n - 1)

\* ------------------------------------------------------------ PIL images
NoException == "none"
Black == <<0, 0, 0>>
NoImage == [size |-> <<0, 0>>, px |-> <<>>, allocated |-> FALSE]

\* Image.new("RGB", (w, h)): every pixel black
NewImage(w, h) ==
    [size |-> <<w, h>>,
     px |-> [p \in Range(w) \X Range(h) |-> Black],
     allocated |-> TRUE]

\* Python None
None == [kind |-> "None", url |-> <<>>, size |-> <<0, 0>>, intact |-> FALSE]

\* Image.open(BytesIO(content)) of the tile served for url: the header is
\* parsed at once, the pixel data is decoded lazily at the first load().
OpenedImage(url, w, h, intact) ==
    [kind |-> "Image", url |-> url, size |-> <<w, h>>, intact |-> intact]

\* the pixel (i, j) of the bitmap served for url
TilePixel(tile, i, j) == <<tile.url[1], tile.url[2], i, j>>

\* `if tile:` - None is falsy, an Image object is truthy
Truthy(tile) == tile.kind = "Image"

\* a paste that blends with what the canvas already holds: a pixel that is
\* already set is cleared
PasteToggle(im, tile, ox, oy) ==
    [im EXCEPT !.px =
        [p \in DOMAIN im.px |->
            IF /\ p[1] >= ox /\ p[1] < ox + tile.size[1]
               /\ p[2] >= oy /\ p[2] < oy + tile.size[2]
            THEN (IF im.px[p] = Black
                  THEN TilePixel(tile, p[1] - ox, p[2] - oy)
                  ELSE Black)
            ELSE im.px[p]]]

\* a paste that enlarges the canvas to hold the whole box
PasteGrowing(im, tile, ox, oy) ==
    [im EXCEPT !.px =
        [p \in DOMAIN im.px \cup
                ((ox .. ox + tile.size[1] - 1) \X (oy .. oy + tile.size[2] - 1)) |->
            IF /\ p[1] >= ox /\ p[1] < ox + tile.size[1]
               /\ p[2] >= oy /\ p[2] < oy + tile.size[2]
            THEN TilePixel(tile, p[1] - ox, p[2] - oy)
            ELSE im.px[p]]]

\* a paste that starts from a fresh canvas
PasteOntoBlank(im, tile, ox, oy) ==
    [im EXCEPT !.px =
        [p \in DOMAIN im.px |->
            IF /\ p[1] >= ox /\ p[1] < ox + tile.size[1]
               /\ p[2] >= oy /\ p[2] < oy + tile.size[2]
            THEN TilePixel(tile, p[1] - ox, p[2] - oy)
            ELSE Black]]

\* pano.paste(tile, (ox, oy)): the box is the tile's size, clipped to pano
Paste(im, tile, ox, oy) ==
    [im EXCEPT !.px =
        [p \in DOMAIN im.px |->
            IF /\ p[1] >= ox /\ p[1] < ox + tile.size[1]
               /\ p[2] >= oy /\ p[2] < oy + tile.size[2]
            THEN TilePixel(tile, p[1] - ox, p[2] - oy)
            ELSE im.px[p]]]

\* ------------------------------------------------------------ fetch_tile
\* what the tile server does with one request
Responses == {"ok", "truncated", "network_error", "http_status", "not_an_image"}

\* the exception raised inside the try block of fetch_tile, if any
Raised(r) ==
    CASE r = "network_error" -> "aiohttp.ClientConnectionError"
      [] r = "http_status"   -> "aiohttp.ClientResponseError"
      [] r = "not_an_image"  -> "PIL.UnidentifiedImageError"
      [] OTHER               -> NoException

ClientErrors == {"aiohttp.ClientConnectionError", "aiohttp.ClientResponseError"}
IOErrors == {"PIL.UnidentifiedImageError", "OSError"}

\* a handler that names aiohttp.ClientError alone
CaughtClientErrorOnly(e) == e \in ClientErrors

\* except (aiohttp.ClientError, IOError)
Caught(e) == e \in ClientErrors \/ e \in IOErrors

\* print(f"Failed to fetch tile: {e}"): the text of a ClientResponseError
\* names the URL of the request, the text of a connection error names the
\* host only, the text of an UnidentifiedImageError names a BytesIO object
LogLine(e, url) ==
    [exc |-> e, url |-> IF e = "aiohttp.ClientResponseError" THEN url ELSE <<>>]

\* the value fetch_tile returns for a response it does not raise on
TileResult(r, url, w, h) ==
    CASE r = "ok"        -> OpenedImage(url, w, h, TRUE)
      [] r = "truncated" -> OpenedImage(url, w, h, FALSE)
      [] OTHER           -> None

Resolved(t) == t \in Responses

\* aiohttp.ClientSession() builds its default TCPConnector, which holds at
\* most 100 connections at a time; a request beyond that waits in
\* session.get until another request releases its connection
ConnectorLimit == 100

\* the tasks that hold a connection
InFlight(t) == {i \in DOMAIN t : t[i] = "inflight"}

\* a connector without a limit
CanConnectUnlimited(t) == TRUE

\* the connector hands out a connection while it holds fewer than its limit
CanConnect(t) == Cardinality(InFlight(t)) < ConnectorLimit

\* ------------------------------------------------------------- make_pano
\* dispatch loops nested the other way round
TaskUrlsRowMajor(xr, yr) ==
    IF xr > 0 /\ yr > 0
    THEN [k \in 1 .. (xr * yr) |-> <<(k - 1) % xr, (k - 1) \div xr>>]
    ELSE <<>>

\* the dispatch loops: for x in range(x_range): for y in range(y_range)
TaskUrls(xr, yr) ==
    IF xr > 0 /\ yr > 0
    THEN [k \in 1 .. (xr * yr) |-> <<(k - 1) \div yr, (k - 1) % yr>>]
    ELSE <<>>

\* an adjustment that does not look at auto_height
EffectiveHeightAlways(w, h, auto) == HalfInt(w)

\* the auto-height adjustment
EffectiveHeight(w, h, auto) ==
    IF auto /\ h # HalfInt(w) THEN HalfInt(w) ELSE h

\* a wait that resumes its caller at the first finished task
FirstDone(t) == \E i \in DOMAIN t : Resolved(t[i])

\* asyncio.gather(*tasks) resumes its caller once every task is done
AllDone(t) == \A i \in DOMAIN t : Resolved(t[i])

\* a join that keeps the fetched tiles only
GatherSuccesses(t, urls, w, h) ==
    SelectSeq([i \in DOMAIN t |-> TileResult(t[i], urls[i], w, h)], Truthy)

\* the list gather returns: one entry per task, in the order of the arguments
GatherResults(t, urls, w, h) ==
    [i \in DOMAIN t |-> TileResult(t[i], urls[i], w, h)]

Inputs(lo) ==
    { a \in [pano_width : lo .. MaxPanoWidth, pano_height : lo .. MaxPanoHeight,
             tile_width : lo .. MaxTileSize, tile_height : lo .. MaxTileSize,
             auto_height : BOOLEAN] :
        \/ a.tile_width = 0
        \/ a.tile_height = 0
        \/ Len(TaskUrls(CeilDiv(a.pano_width, a.tile_width),
                        CeilDiv(a.pano_height, a.tile_height))) <= MaxTiles }

\* main once it has called make_pano
MainCalled ==
    [pc |-> "run", coordinates |-> "valid", zoom |-> 0, auto_height |-> FALSE,
     reply |-> "ok", zooms |-> <<>>, status |-> 0]

\* the locals of make_pano before its first statement
Locals ==
    /\ x_range = 0
    /\ y_range = 0
    /\ total_tiles = 0
    /\ pano = NoImage
    /\ bar_value = 0
    /\ bar_calls = 0
    /\ tasks = <<>>
    /\ task = <<>>
    /\ results = <<>>
    /\ tile_index = 0
    /\ x = 0
    /\ y = 0
    /\ saved = 0
    /\ log = EmptyBag
    /\ err = NoException

InitWith(a) ==
    /\ pc = "plan"
    /\ args = a
    /\ pano_height = a.pano_height
    /\ main = MainCalled
    /\ Locals

\* the metadata resolver hands make_pano positive dimensions
Init == \E a \in Inputs(1) : InitWith(a)

\* make_pano called with any integers
InitAnyDims == \E a \in Inputs(1 - MaxBelowOne) : InitWith(a)

\* lines 38-48
Plan ==
    /\ pc = "plan"
    /\ IF args.tile_width = 0 \/ args.tile_height = 0
       THEN /\ pc' = "error"
            /\ err' = "ZeroDivisionError"
            /\ UNCHANGED <<pano_height, x_range, y_range, total_tiles, pano>>
       ELSE LET xr == CeilDiv(args.pano_width, args.tile_width)
                yr == CeilDiv(args.pano_height, args.tile_height)
                h  == EffectiveHeight(args.pano_width, args.pano_height,
                                      args.auto_height)
            IN /\ x_range' = xr
               /\ y_range' = yr
               /\ total_tiles' = xr * yr
               /\ pano_height' = h
               /\ IF args.pano_width < 0 \/ h < 0
                  THEN \* Image.new: "Width and height must be >= 0"
                       /\ pc' = "error"
                       /\ err' = "ValueError"
                       /\ pano' = pano
                  ELSE /\ pano' = NewImage(args.pano_width, h)
                       /\ IF xr * yr < 0
                          THEN \* ProgressBar: max_value below min_value
                               /\ pc' = "error"
                               /\ err' = "ValueError"
                          ELSE /\ pc' = "dispatch"
                               /\ err' = err
    /\ UNCHANGED <<args, log, main, bar_value, bar_calls, tasks, task, results,
                   tile_index, x, y, saved>>

\* lines 50-57: the task list is built and handed to asyncio.gather
Dispatch ==
    /\ pc = "dispatch"
    /\ tasks' = TaskUrls(x_range, y_range)
    /\ task' = [i \in DOMAIN TaskUrls(x_range, y_range) |-> "pending"]
    /\ pc' = "gather"
    /\ UNCHANGED <<args, log, main, pano_height, x_range, y_range, total_tiles, pano,
                   bar_value, bar_calls, results, tile_index, x, y, saved, err>>

\* line 29: session.get obtains a connection and sends the request
StartTask(i) ==
    /\ pc = "gather"
    /\ task[i] = "pending"
    /\ CanConnect(task)
    /\ task' = [task EXCEPT ![i] = "inflight"]
    /\ UNCHANGED <<pc, args, log, main, pano_height, x_range, y_range, total_tiles, pano,
                   bar_value, bar_calls, tasks, results, tile_index, x, y,
                   saved, err>>

\* lines 29-35: the response arrives and fetch_tile returns or raises
CompleteTask(i, r) ==
    /\ pc = "gather"
    /\ task[i] = "inflight"
    /\ IF Raised(r) # NoException /\ ~Caught(Raised(r))
       THEN \* gather hands the first exception to make_pano
            /\ task' = [task EXCEPT ![i] = "raised"]
            /\ pc' = "error"
            /\ err' = Raised(r)
            /\ log' = log
       ELSE /\ task' = [task EXCEPT ![i] = r]
            /\ log' = IF Raised(r) # NoException
                      THEN log (+) SetToBag({LogLine(Raised(r), tasks[i])})
                      ELSE log
            /\ UNCHANGED <<pc, err>>
    /\ UNCHANGED <<args, main, pano_height, x_range, y_range, total_tiles, pano,
                   bar_value, bar_calls, tasks, results, tile_index, x, y,
                   saved>>

\* lines 57-59: gather returns the results
GatherReturn ==
    /\ pc = "gather"
    /\ AllDone(task)
    /\ results' = GatherResults(task, tasks, args.tile_width, args.tile_height)
    /\ tile_index' = 0
    /\ x' = 0
    /\ y' = 0
    /\ pc' = IF x_range > 0 /\ y_range > 0 THEN "assemble" ELSE "save"
    /\ UNCHANGED <<args, log, main, pano_height, x_range, y_range, total_tiles, pano,
                   bar_value, bar_calls, tasks, task, saved, err>>

\* lines 60-66: one iteration of the assembly loops
AssembleStep ==
    /\ pc = "assemble"
    /\ LET tile == results[tile_index + 1]
           last == (x = x_range - 1) /\ (y = y_range - 1)
       IN /\ tile_index' = tile_index + 1
          /\ IF Truthy(tile) /\ ~tile.intact
             THEN \* paste loads the tile: "image file is truncated"
                  /\ pc' = "error"
                  /\ err' = "OSError"
                  /\ UNCHANGED <<pano, bar_value, bar_calls, x, y>>
             ELSE /\ IF Truthy(tile)
                     THEN /\ pano' = Paste(pano, tile, x * args.tile_width,
                                           y * args.tile_height)
                          /\ bar_value' = bar_value + 1
                          /\ bar_calls' = bar_calls + 1
                     ELSE UNCHANGED <<pano, bar_value, bar_calls>>
                  /\ x' = IF y = y_range - 1 THEN x + 1 ELSE x
                  /\ y' = IF y = y_range - 1 THEN 0 ELSE y + 1
                  /\ pc' = IF last THEN "save" ELSE "assemble"
                  /\ err' = err
    /\ UNCHANGED <<args, log, main, pano_height, x_range, y_range, total_tiles, tasks,
                   task, results, saved>>

\* line 68: an image with no pixels cannot be written in every format
Save ==
    /\ pc = "save"
    /\ \E written \in (IF DOMAIN pano.px = {} THEN BOOLEAN ELSE {TRUE}) :
          IF written
          THEN /\ saved' = saved + 1
               /\ pc' = "done"
               /\ err' = err
          ELSE /\ saved' = saved
               /\ pc' = "error"
               /\ err' = "ValueError"
    /\ UNCHANGED <<args, log, main, pano_height, x_range, y_range, total_tiles, pano,
                   bar_value, bar_calls, tasks, task, results, tile_index,
                   x, y>>

\* ------------------------------------------------------------------ main
\* the zoom levels the metadata of a panorama lists, largest first
ZoomCatalogue ==
    [k \in 1 .. MaxZoomLevels |->
        [width |-> 2 * (MaxZoomLevels - k + 1), height |-> MaxZoomLevels - k + 1]]
MetadataTileSize == [width |-> 2, height |-> 2]

NoArgs ==
    [pano_width |-> 0, pano_height |-> 0, tile_width |-> 0, tile_height |-> 0,
     auto_height |-> FALSE]

\* the command line and what the metadata request comes back with
MainInputs ==
    { [pc |-> "parse", coordinates |-> c, zoom |-> z, auto_height |-> a,
       reply |-> r, zooms |-> SubSeq(ZoomCatalogue, 1, n), status |-> 0] :
        c \in {"valid", "invalid"}, z \in (0 - MaxZoom) .. MaxZoom,
        a \in BOOLEAN,
        r \in {"request_error", "empty", "missing_field", "ok"},
        n \in 0 .. MaxZoomLevels }

\* images["Zooms"][args.zoom] raises IndexError outside -len .. len-1
ValidIndex(zs, z) == z >= 0 - Len(zs) /\ z < Len(zs)

\* list indexing: a negative index counts from the end
ListItem(zs, z) == IF z >= 0 THEN zs[z + 1] ELSE zs[Len(zs) + z + 1]

InitMain ==
    /\ pc = "idle"
    /\ args = NoArgs
    /\ pano_height = 0
    /\ main \in MainInputs
    /\ Locals

\* sys.exit(1)
Exit1 == [main EXCEPT !.pc = "exit", !.status = 1]

\* lines 85-89
ParseCoordinates ==
    /\ main.pc = "parse"
    /\ main' = IF main.coordinates = "invalid"
               THEN Exit1
               ELSE [main EXCEPT !.pc = "fetch"]
    /\ UNCHANGED <<pc, args, pano_height, x_range, y_range, total_tiles, pano,
                   bar_value, bar_calls, tasks, task, results, tile_index,
                   x, y, saved, log, err>>

\* lines 96-98: fetch_and_process_json returns None on a RequestException,
\* and `not data` also holds for an empty document
FetchMetadata ==
    /\ main.pc = "fetch"
    /\ main' = IF main.reply \in {"request_error", "empty"}
               THEN Exit1
               ELSE [main EXCEPT !.pc = "extract"]
    /\ UNCHANGED <<pc, args, pano_height, x_range, y_range, total_tiles, pano,
                   bar_value, bar_calls, tasks, task, results, tile_index,
                   x, y, saved, log, err>>

\* lines 100-119: the fields are read and make_pano is called
ExtractFields ==
    /\ main.pc = "extract"
    /\ IF main.reply = "missing_field" \/ ~ValidIndex(main.zooms, main.zoom)
       THEN \* KeyError, IndexError or TypeError
            /\ main' = Exit1
            /\ UNCHANGED <<pc, args, pano_height>>
       ELSE LET zoom_data == ListItem(main.zooms, main.zoom)
            IN /\ main' = [main EXCEPT !.pc = "run"]
               /\ args' = [pano_width |-> zoom_data.width,
                           pano_height |-> zoom_data.height,
                           tile_width |-> MetadataTileSize.width,
                           tile_height |-> MetadataTileSize.height,
                           auto_height |-> main.auto_height]
               /\ pano_height' = zoom_data.height
               /\ pc' = "plan"
    /\ UNCHANGED <<x_range, y_range, total_tiles, pano, bar_value, bar_calls,
                   tasks, task, results, tile_index, x, y, saved, log, err>>

\* lines 115-121: run_until_complete returns or raises, the loop is closed
Finish ==
    /\ main.pc = "run"
    /\ pc \in {"done", "error"}
    /\ main' = [main EXCEPT !.pc = "exit",
                            !.status = IF pc = "done" THEN 0 ELSE 1]
    /\ UNCHANGED <<pc, args, pano_height, x_range, y_range, total_tiles, pano,
                   bar_value, bar_calls, tasks, task, results, tile_index,
                   x, y, saved, log, err>>

\* lines 59-66 as a function of the canvas and the outcomes: the canvas
\* after the iterations k .. Len(outs) of the assembly loops
RECURSIVE AssembleFrom(_, _, _)
AssembleFrom(im, outs, k) ==
    IF k > Len(outs)
    THEN im
    ELSE AssembleFrom(
            IF Truthy(outs[k])
            THEN Paste(im, outs[k], ((k - 1) \div y_range) * args.tile_width,
                       ((k - 1) % y_range) * args.tile_height)
            ELSE im,
            outs, k + 1)

Next ==
    \/ Plan
    \/ Dispatch
    \/ \E i \in DOMAIN task : StartTask(i)
    \/ \E i \in DOMAIN task : \E r \in Responses : CompleteTask(i, r)
    \/ GatherReturn
    \/ AssembleStep
    \/ Save

Spec == Init /\ [][Next]_vars

SpecAnyDims == InitAnyDims /\ [][Next]_vars

NextMain ==
    \/ ParseCoordinates
    \/ FetchMetadata
    \/ ExtractFields
    \/ Finish
    \/ Next

\* the whole program, from the command line on
SpecMain == InitMain /\ [][NextMain]_vars

\* a panorama of one row with as many tiles as the connector has connections,
\* or more
FanOutInputs ==
    { [pano_width |-> w, pano_height |-> 1, tile_width |-> 1, tile_height |-> 1,
       auto_height |-> FALSE] :
        w \in ConnectorLimit .. (ConnectorLimit + MaxOverLimit) }

InitFanOut == \E a \in FanOutInputs : InitWith(a)

\* the tasks gather schedules run in the order of the task list (the event
\* loop's ready queue is first in, first out); the server is taken to answer
\* every request with a tile, in the order of the requests
NextFanOut ==
    \/ Plan
    \/ Dispatch
    \/ \E i \in DOMAIN task :
          /\ \A j \in 1 .. (i - 1) : task[j] # "pending"
          /\ StartTask(i)
    \/ \E i \in DOMAIN task :
          /\ \A j \in 1 .. (i - 1) : task[j] \notin {"pending", "inflight"}
          /\ CompleteTask(i, "ok")
    \/ GatherReturn
    \/ AssembleStep
    \/ Save

SpecFanOut == InitFanOut /\ [][NextFanOut]_vars

\* ------------------------------------------------------------ properties
FailureResponses == {"network_error", "http_status", "not_an_image"}
Grid == Range(x_range) \X Range(y_range)
GatherReturned ==
    \/ pc \in {"assemble", "save", "done"}
    \/ pc = "error" /\ Len(results) > 0
Untouched == \A p \in DOMAIN pano.px : pano.px[p] = Black

\* C1: a tile whose fetch fails (network error, non-2xx status, undecodable
\* response) resolves to its own None result: the step in which it fails
\* leaves make_pano waiting in gather and changes no other task, no
\* exception leaves the fetch-all step, every other in-flight task can still
\* complete with any response, and after the join every task has the result
\* its own response determines.
C1_StepIsolated ==
    \A i \in DOMAIN task :
        (pc = "gather" /\ task[i] = "inflight" /\ i \in DOMAIN task'
            /\ task'[i] \in FailureResponses)
        => /\ pc' = "gather"
           /\ err' = NoException
           /\ \A j \in DOMAIN task : j # i => task'[j] = task[j]
C1_OthersProceed ==
    (pc = "gather" /\ \E i \in DOMAIN task : task[i] \in FailureResponses)
    => \A j \in DOMAIN task :
          /\ task[j] = "pending" => ENABLED StartTask(j)
          /\ task[j] = "inflight" =>
                \A r \in Responses : ENABLED CompleteTask(j, r)
C1_NoEscape ==
    /\ \A i \in DOMAIN task : task[i] \in {"pending", "inflight"} \cup Responses
    /\ (pc = "error" /\ Len(tasks) > 0) => Len(results) = Len(tasks)
C1_OwnOutcome ==
    GatherReturned =>
        \A i \in DOMAIN task :
            /\ task[i] \in FailureResponses => results[i] = None
            /\ task[i] \in {"ok", "truncated"} =>
                  /\ Truthy(results[i])
                  /\ results[i].url = tasks[i]
C2_JoinBarrier ==
    (\E i \in DOMAIN task : task[i] \notin Responses)
    => /\ pc \in {"gather", "error"}
       /\ results = <<>>
       /\ tile_index = 0
       /\ Untouched

\* C2 witness: a tile has been copied into the canvas after a join over a
\* task set in which another fetch had failed
C2_Witness ==
    /\ pc = "assemble"
    /\ ~Untouched
    /\ \E i \in DOMAIN task : task[i] \in FailureResponses
    /\ \A i \in DOMAIN task : task[i] \in Responses
\* C3: the planned grid has columns = ceil(panoWidth / tileWidth) and
\* rows = ceil(effectiveHeight / tileHeight), effectiveHeight being the
\* height after the auto-height adjustment, so the grid covers the canvas.
C3_GridGeometry ==
    pc # "plan" =>
        /\ x_range * args.tile_width >= args.pano_width
        /\ (x_range - 1) * args.tile_width < args.pano_width
        /\ y_range * args.tile_height >= pano_height
        /\ (y_range - 1) * args.tile_height < pano_height

\* C4: with a dimension <= 0 the run fails at planning time: nothing is
\* dispatched, and no canvas is assembled or written.
C4_InvalidDimension ==
    (\/ args.pano_width <= 0 \/ args.pano_height <= 0
     \/ args.tile_width <= 0 \/ args.tile_height <= 0)
    => /\ pc \in {"plan", "error"}
       /\ tasks = <<>>
       /\ saved = 0

\* C5: when gather has returned, results has exactly x_range * y_range
\* entries, and every coordinate of the grid is the coordinate of exactly one
\* of them, however many fetches failed.
C5_OutcomeBijection ==
    GatherReturned =>
        /\ Len(results) = x_range * y_range
        /\ Len(results) = Len(tasks)
        /\ \A i \in DOMAIN results : tasks[i] \in Grid
        /\ \A c \in Grid :
              Cardinality({i \in DOMAIN results : tasks[i] = c}) = 1

\* C5 witness: gather has returned for a grid of several tiles all of whose
\* fetches failed
C5_Witness ==
    /\ pc = "assemble"
    /\ Len(results) = MaxTiles
    /\ \A i \in DOMAIN task : task[i] \in FailureResponses

\* C6: the finished canvas is a function of the per-coordinate fetch results
\* alone: the pixel (px, py) holds pixel (px mod tileWidth, py mod tileHeight)
\* of the bitmap fetched for coordinate (px div tileWidth, py div tileHeight)
\* when that fetch succeeded, in whatever order the fetches completed.
C6_PlacementByCoordinate ==
    pc \in {"save", "done"} =>
        \A p \in DOMAIN pano.px :
            LET c == p[1] \div args.tile_width
                r == p[2] \div args.tile_height
            IN IF \E i \in DOMAIN tasks : tasks[i] = <<c, r>> /\ task[i] = "ok"
               THEN pano.px[p] = <<c, r, p[1] % args.tile_width,
                                   p[2] % args.tile_height>>
               ELSE pano.px[p] = Black

\* C6 witness: a grid of two columns and two rows, every tile fetched, and the
\* first pixel of the second column holds the colour of tile (1, 0)
C6_Witness ==
    /\ pc = "done"
    /\ x_range = 2
    /\ y_range = 2
    /\ \A i \in DOMAIN task : task[i] = "ok"
    /\ <<args.tile_width, 0>> \in DOMAIN pano.px
    /\ pano.px[<<args.tile_width, 0>>] = <<1, 0, 0, 0>>

\* C7: an assembly step changes only pixels of the cell it is processing, and
\* only when that cell's outcome is a tile; after assembly the cell of every
\* None outcome is all default fill and the in-bounds part of the cell of
\* every fetched tile holds that tile's pixels.
C7_CellPixels(c) ==
    {p \in DOMAIN pano.px :
        /\ p[1] \div args.tile_width = c[1]
        /\ p[2] \div args.tile_height = c[2]}
C7_FrameStep ==
    \A p \in DOMAIN pano.px :
        (p \in DOMAIN pano'.px /\ pano'.px[p] # pano.px[p])
        => /\ pc = "assemble"
           /\ p \in C7_CellPixels(<<x, y>>)
           /\ Truthy(results[tile_index + 1])
C7_Final ==
    pc \in {"save", "done"} =>
        \A i \in DOMAIN results :
            \A p \in C7_CellPixels(tasks[i]) :
                IF Truthy(results[i])
                THEN pano.px[p] = TilePixel(results[i],
                                            p[1] - tasks[i][1] * args.tile_width,
                                            p[2] - tasks[i][2] * args.tile_height)
                ELSE pano.px[p] = Black
C7_FailedCellsKeepFill == [][C7_FrameStep]_vars /\ []C7_Final

\* C7 witness: assembly has finished with the tile (0, 0) failed, its cell
\* black, and another cell populated
C7_Witness ==
    /\ pc = "done"
    /\ \E i \in DOMAIN results :
          /\ tasks[i] = <<0, 0>>
          /\ results[i] = None
          /\ <<0, 0>> \in DOMAIN pano.px
          /\ pano.px[<<0, 0>>] = Black
    /\ \E j \in DOMAIN results :
          /\ Truthy(results[j])
          /\ C7_CellPixels(tasks[j]) # {}
          /\ \A p \in C7_CellPixels(tasks[j]) : pano.px[p] # Black

\* C8: whatever the tiles' fetches do, the run completes and writes the
\* output exactly once, after every outcome has been processed.
C8_AlwaysWrites ==
    /\ tasks # <<>> => pc # "error"
    /\ saved <= 1
    /\ pc = "done" => saved = 1
    /\ saved = 1 => tile_index = Len(results)

\* C9: effectiveHeight is panoWidth div 2 when autoHeight is set and
\* panoHeight differs from it, panoHeight otherwise, and the canvas is
\* allocated with exactly (panoWidth, effectiveHeight).
C9_AutoHeight ==
    pc # "plan" =>
        LET half == args.pano_width \div 2
            eff  == IF args.auto_height
                    THEN (IF args.pano_height # half THEN half
                          ELSE args.pano_height)
                    ELSE args.pano_height
        IN /\ pano_height = eff
           /\ pano.allocated
           /\ pano.size = <<args.pano_width, eff>>
           /\ DOMAIN pano.px =
                 (0 .. args.pano_width - 1) \X (0 .. eff - 1)

\* C9 witness: autoHeight set, panoHeight different from panoWidth div 2, and
\* the canvas allocated with the halved width as its height
C9_Witness ==
    /\ pc = "dispatch"
    /\ args.auto_height
    /\ args.pano_width = 4
    /\ args.pano_height = 3
    /\ pano_height = 2
    /\ pano.size = <<4, 2>>

\* C10: one progress notification is made per tile outcome, whether a tile or
\* None, and after the run the reported count is the total tile count.
C10_Progress ==
    pc \in {"save", "done"} =>
        /\ bar_calls = Len(results)
        /\ bar_value = total_tiles
C12_FailuresReportable ==
    pc \in {"save", "done"} =>
        /\ BagCardinality(log) =
              Cardinality({i \in DOMAIN results : results[i] = None})
        /\ {l.url : l \in BagToSet(log)} =
              {tasks[i] : i \in {j \in DOMAIN results : results[j] = None}}
\* C13: the finished canvas is the assembly of a fresh canvas of the planned
\* size from the outcome list alone, whatever run produced that list, and
\* assembling the same outcomes once more onto the finished canvas leaves it
\* as it is.
C13_AssemblyDeterministic ==
    pc \in {"save", "done"} =>
        /\ pano = AssembleFrom(NewImage(args.pano_width, pano_height),
                               results, 1)
        /\ AssembleFrom(pano, results, 1) = pano

\* C13 witness: a finished canvas assembled from at least three outcomes, some
\* of them tiles and some of them None
C13_Witness ==
    /\ pc = "done"
    /\ Len(results) >= 3
    /\ \E i \in DOMAIN results : results[i] = None
    /\ \E i \in DOMAIN results : Truthy(results[i])
    /\ ~Untouched
\* C14: no decode error of a tile is raised during assembly: the assembly
\* loop never ends make_pano with the OSError of a tile that fails to load.
C14_NoDecodeInAssembly ==
    ~(pc = "error" /\ err = "OSError" /\ tile_index > 0)

\* C15: pasting a fetched tile never raises and never changes the canvas
\* dimensions, and it writes inside the canvas only: the canvas keeps the
\* pixel set (0 .. panoWidth-1) x (0 .. effectiveHeight-1) when a tile
\* reaches past its right or bottom edge or lies outside it altogether.
C15_PasteStep ==
    (/\ pc = "assemble"
     /\ Truthy(results[tile_index + 1])
     /\ results[tile_index + 1].intact)
    => /\ pc' # "error"
       /\ pano'.size = pano.size
       /\ DOMAIN pano'.px = DOMAIN pano.px
C15_CanvasBounds ==
    pano.allocated =>
        /\ pano.size = <<args.pano_width, pano_height>>
        /\ DOMAIN pano.px =
              (0 .. args.pano_width - 1) \X (0 .. pano_height - 1)
C15_Clipping == [][C15_PasteStep]_vars /\ []C15_CanvasBounds

\* C15 witness: assembly has finished after pasting a tile that reaches past
\* the right edge of the canvas and a tile whose offset lies below the canvas
C15_Witness ==
    /\ pc = "done"
    /\ pano_height >= 1
    /\ ~Untouched
    /\ \E i \in DOMAIN task :
          /\ task[i] = "ok"
          /\ tasks[i][1] * args.tile_width < args.pano_width
          /\ (tasks[i][1] + 1) * args.tile_width > args.pano_width
    /\ \E j \in DOMAIN task :
          /\ task[j] = "ok"
          /\ tasks[j][2] * args.tile_height >= pano_height
\* C16: when the coordinates do not parse, the metadata request fails, a
\* field is missing, or the requested zoom is not one of the levels
\* 0 .. Len(Zooms) - 1 the metadata lists, make_pano is never called: nothing
\* is planned, dispatched or written, and the program exits with status 1.
C16_MetadataFailureStops ==
    (\/ main.coordinates = "invalid"
     \/ main.reply \in {"request_error", "empty", "missing_field"}
     \/ main.zoom \notin 0 .. (Len(main.zooms) - 1))
    => /\ pc = "idle"
       /\ tasks = <<>>
       /\ saved = 0
       /\ main.pc = "exit" => main.status = 1

\* C17: once every dispatched fetch has resolved the join is passed, and a
\* run that allocated a canvas with at least one pixel can stop only after
\* the assembly loop has taken every outcome once and the output file has
\* been written; before that, the run waits for nothing but the tiles'
\* responses at the join.
C17_Termination ==
    /\ (pc = "gather" /\ \A i \in DOMAIN task : Resolved(task[i]))
          => ENABLED GatherReturn
    /\ (pc \in {"plan", "dispatch", "assemble", "save"}) => ENABLED Next
    /\ (DOMAIN pano.px # {} /\ ~ENABLED Next)
          => /\ pc = "done"
             /\ saved = 1
             /\ tile_index = Len(results)
====
